---------------------------- MODULE Spec2Model ----------------------------
(***************************************************************************)
(* A model of src/app.py: the VideoGenerator class.                        *)
(*                                                                         *)
(* A VideoGenerator holds a configuration dictionary.  Its methods write   *)
(* a title segment and a chart-animation segment frame by frame through a  *)
(* video writer, synthesise a voice-over, and hand the concatenated        *)
(* segments and the composite audio to the encoder.  The program is        *)
(* single-threaded: one method runs at a time (pc), and the loops of       *)
(* create_title_screen and generate_chart_animation advance one frame per  *)
(* step.                                                                   *)
(*                                                                         *)
(* Python dictionaries are functions over strings; {**a, **b} is b @@ a.   *)
(* Fractions the code computes in floating point are kept exact in tenths  *)
(* (alpha = k/10, gain 0.3 = 3 tenths).  The drawing, speech and encoding  *)
(* libraries are collaborators: a rendered chart is the raster its data    *)
(* window determines, a written frame is what the writer was handed, and   *)
(* the encoder's input is what write_videofile was called on.  A name the  *)
(* code looks up on a library object that does not have it raises          *)
(* AttributeError there: plt.colors (line 142) and the method              *)
(* concatenate_videoclips of a VideoFileClip (line 183).                   *)
(***************************************************************************)
EXTENDS Integers, Sequences, FiniteSets, TLC

VARIABLES
    config,   \* self.config of the current VideoGenerator
    pc,       \* the method that is running: "idle", "title", "chart"
    call,     \* the latest call: its arguments and how it ended
    i,        \* the loop variable of the running method
    disk,     \* the output directory: title, anim (segments), voice (audio)
    encoded   \* what the latest call handed to write_videofile

vars == <<config, pc, call, i, disk, encoded>>

Min(a, b) == IF a <= b THEN a ELSE b
Max(a, b) == IF a >= b THEN a ELSE b

(***************************************************************************)
(* Bounds of the model.                                                    *)
(***************************************************************************)
\* The longest series handed to generate_chart_animation.
MaxLen == 11
\* The highest frame rate a config file sets (the default is DefaultFps).
MaxFps == 2

(***************************************************************************)
(* _load_config: the defaults and the merge (src/app.py 34-55).            *)
(***************************************************************************)
DefaultWidth == 1280
DefaultHeight == 720
DefaultFps == 24
DefaultRate == 150
\* voice.volume 1.0, in tenths
DefaultVolume == 10

default_colors ==
    [title_bg |-> "#2c3e50", chart_bg |-> "#ecf0f1", text |-> "#ffffff"]

default_voice ==
    [rate |-> DefaultRate, volume |-> DefaultVolume, voice_id |-> "english"]

default_config ==
    [resolution  |-> <<DefaultWidth, DefaultHeight>>,
     fps         |-> DefaultFps,
     chart_types |-> <<"line", "bar", "scatter">>,
     colors      |-> default_colors,
     voice       |-> default_voice]

\* {**default_config, **json.load(f)}: the document's top-level keys replace
\* the defaults' values whole; the other keys keep their defaults.
merge(defaults, doc) == doc @@ defaults

\* A config path: whether a file exists there, and the document it holds.
NoPath == [doc |-> <<>>, exists |-> FALSE]
FilePath(doc) == [doc |-> doc, exists |-> TRUE]

load_config(path) ==
    IF path.exists THEN merge(default_config, path.doc) ELSE default_config

(***************************************************************************)
(* Configuration documents.                                                *)
(***************************************************************************)
TopKeys == {"resolution", "fps", "chart_types", "colors", "voice"}
NestedKeys == {"colors", "voice"}
SubKeys(k) ==
    IF k = "colors" THEN {"title_bg", "chart_bg", "text"}
    ELSE {"rate", "volume", "voice_id"}

\* The values a document sets, all different from the defaults.
doc_colors ==
    [title_bg |-> "#000000", chart_bg |-> "#111111", text |-> "#222222"]
doc_voice == [rate |-> 160, volume |-> 5, voice_id |-> "german"]

Sub(full, keys) == [k \in keys |-> full[k]]
Opt(key, values) == {<<>>} \cup {key :> v : v \in values}

\* Every document that sets a subset of the recognized keys, with any subset
\* of the keys under colors and under voice.
AllDocs ==
    { r @@ f @@ t @@ c @@ v :
        r \in Opt("resolution", {<<1920, 1080>>}),
        f \in Opt("fps", {30}),
        t \in Opt("chart_types", {<<"line", "pie">>}),
        c \in Opt("colors", {Sub(doc_colors, s) : s \in SUBSET DOMAIN doc_colors}),
        v \in Opt("voice", {Sub(doc_voice, s) : s \in SUBSET DOMAIN doc_voice}) }

(***************************************************************************)
(* Records of calls, segments and the encoder's input.                     *)
(***************************************************************************)
NoData == [years |-> <<>>, values |-> <<>>]

NoCall ==
    [op |-> "none", status |-> "returned", error |-> "",
     path |-> NoPath, title |-> <<>>, data |-> NoData, kind |-> "",
     text |-> 0, music |-> 0]

NoSegment == [exists |-> FALSE, fps |-> 0, size |-> <<0, 0>>, frames |-> <<>>]
NoAudio == [exists |-> FALSE, duration |-> 0]
NotEncoded ==
    [invoked |-> FALSE, frames |-> <<>>, clips |-> <<>>,
     audio |-> [tracks |-> <<>>, duration |-> 0]]

EmptyDisk == [title |-> NoSegment, anim |-> NoSegment, voice |-> NoAudio]

(***************************************************************************)
(* __init__ (src/app.py 29-32): a generator is constructed on a config     *)
(* path.  The output directory outlives the generator.                     *)
(***************************************************************************)
Construct(path) ==
    /\ pc = "idle"
    /\ config' = load_config(path)
    /\ call' = [NoCall EXCEPT !.op = "__init__", !.path = path]
    /\ encoded' = NotEncoded
    /\ UNCHANGED <<pc, i, disk>>

InitLoad ==
    /\ config = default_config
    /\ pc = "idle"
    /\ call = [NoCall EXCEPT !.op = "__init__"]
    /\ i = 0
    /\ disk = EmptyDisk
    /\ encoded = NotEncoded

NextLoad == \E doc \in AllDocs : Construct(FilePath(doc))

\* The constructor alone, on every document of AllDocs.
SpecLoad == InitLoad /\ [][NextLoad]_vars

(***************************************************************************)
(* The video writer.  cv2.VideoWriter(path, fourcc, fps, (width, height))  *)
(* creates the file with the declared frame rate and frame size; write     *)
(* hands it one frame.                                                     *)
(***************************************************************************)
VideoWriter(fps, width, height) ==
    [exists |-> TRUE, fps |-> fps, size |-> <<width, height>>, frames |-> <<>>]

write(out, frame) == [out EXCEPT !.frames = Append(@, frame)]

\* height, width = self.config["resolution"]: the first element is bound to
\* height and the second to width (src/app.py 71, 126).
unpack_height(cfg) == cfg["resolution"][1]
unpack_width(cfg) == cfg["resolution"][2]

(***************************************************************************)
(* create_title_screen and _create_animated_frame (src/app.py 124-156).    *)
(***************************************************************************)
TitleSeconds == 3
RevealDivisor == 3
DescThreshold == 15
DescRamp == 30
White == 255

\* title[:n]
Slice(s, n) == SubSeq(s, 1, Min(Len(s), Max(n, 0)))

\* range(3 * fps)
title_frames(cfg) == TitleSeconds * cfg["fps"]

\* text_offset = int(frame_num / 3)
text_offset(frame_num) == frame_num \div RevealDivisor

\* int(255 * min(1.0, (frame_num - 15) / 30)) once frame_num > 15; the
\* description is not drawn before (0 here).
desc_color(frame_num) ==
    IF frame_num > DescThreshold
    THEN Min(White, (White * (frame_num - DescThreshold)) \div DescRamp)
    ELSE 0

\* plt.colors.to_rgb(color), line 142: matplotlib.pyplot has no attribute
\* colors, so the lookup raises before to_rgb is called.
plt_colors_to_rgb(color) == [raised |-> TRUE, error |-> "AttributeError"]

NoFrame == [src |-> "none"]

\* frame = np.zeros((resolution[1], resolution[0], 3)), line 141:
\* resolution[1] rows and resolution[0] columns, in Python's indices from 0.
allocate_frame(cfg) == [w |-> cfg["resolution"][1], h |-> cfg["resolution"][2]]

\* The buffer is allocated first and the background colour looked up next;
\* the text is drawn only if that returns.
create_animated_frame(cfg, frame_num, title) ==
    LET frame == allocate_frame(cfg)
        background == plt_colors_to_rgb(cfg["colors"]["title_bg"])
    IN  IF background.raised
        THEN [raised |-> TRUE, error |-> background.error, frame |-> NoFrame]
        ELSE [raised |-> FALSE, error |-> "",
              frame  |-> [src   |-> "title",
                          num   |-> frame_num,
                          w     |-> frame.w,
                          h     |-> frame.h,
                          text  |-> Slice(title, text_offset(frame_num)),
                          desc  |-> desc_color(frame_num)]]

TitleStart(title) ==
    /\ pc = "idle"
    /\ pc' = "title"
    /\ i' = 0
    /\ call' = [NoCall EXCEPT !.op = "create_title_screen",
                              !.status = "running", !.title = title]
    /\ disk' = [disk EXCEPT !.title =
                   VideoWriter(config["fps"], unpack_width(config),
                               unpack_height(config))]
    /\ encoded' = NotEncoded
    /\ UNCHANGED config

\* One pass of the loop of lines 132-134.  An exception of
\* _create_animated_frame ends the call: the writer stays as it is, opened
\* and not released.
TitleFrame ==
    /\ pc = "title"
    /\ i < title_frames(config)
    /\ LET made == create_animated_frame(config, i, call.title)
       IN  IF made.raised
           THEN /\ pc' = "idle"
                /\ call' = [call EXCEPT !.status = "raised",
                                        !.error = made.error]
                /\ UNCHANGED <<i, disk>>
           ELSE /\ disk' = [disk EXCEPT !.title = write(@, made.frame)]
                /\ i' = i + 1
                /\ UNCHANGED <<pc, call>>
    /\ UNCHANGED <<config, encoded>>

TitleRelease ==
    /\ pc = "title"
    /\ ~(i < title_frames(config))
    /\ pc' = "idle"
    /\ call' = [call EXCEPT !.status = "returned"]
    /\ UNCHANGED <<config, i, disk, encoded>>

(***************************************************************************)
(* generate_chart_animation and its helpers (src/app.py 65-122, 199-208).  *)
(***************************************************************************)
TransitionFrames == 10
PlotKinds == {"line", "bar", "scatter"}

InSeq(x, s) == \E j \in 1..Len(s) : s[j] = x

\* A variant of validate_chart_type: membership in the kinds _plot_data
\* draws instead of the configured ones.
validate_chart_type_plotkinds(cfg, chart_type) == chart_type \in PlotKinds

\* chart_type in self.config["chart_types"]
validate_chart_type(cfg, chart_type) == InSeq(chart_type, cfg["chart_types"])

\* _plot_data and _figure_to_image: the raster of the data window, one 8-bit
\* sample per point drawn; a kind _plot_data does not know draws no marks.
figure_to_image(x, y, chart_type) ==
    [src    |-> "chart",
     num    |-> Len(x),
     w      |-> 16,
     h      |-> 9,
     kind   |-> chart_type,
     years  |-> x,
     values |-> y,
     pix    |-> IF chart_type \in PlotKinds
                THEN [j \in 1..Len(y) |-> y[j] % 256] ELSE <<>>]

\* cv2.resize(img, (width, height))
resize(img, width, height) == [img EXCEPT !.w = width, !.h = height]

Saturate(v) == Max(0, Min(White, v))

\* cv2.addWeighted(src1, alpha, src2, beta, gamma), alpha and beta in tenths:
\* saturate(round(src1*alpha + src2*beta + gamma)) per sample.
addWeighted(src1, alpha10, src2, beta10, gamma) ==
    [j \in 1..Len(src1) |->
        Saturate(((src1[j] * alpha10 + src2[j] * beta10 + 5) \div 10) + gamma)]

\* alpha = min(1.0, frame_num / 10), in tenths
transition_alpha(frame_num) == Min(TransitionFrames, frame_num)

\* A variant of apply_transition: a fade from black, the second operand a
\* black frame instead of the frame itself.
apply_transition_fade(img, frame_num) ==
    [img EXCEPT !.pix =
        addWeighted(img.pix, transition_alpha(frame_num),
                    [j \in 1..Len(img.pix) |-> 0],
                    TransitionFrames - transition_alpha(frame_num), 0)]

apply_transition(img, frame_num) ==
    [img EXCEPT !.pix =
        addWeighted(img.pix, transition_alpha(frame_num),
                    img.pix, TransitionFrames - transition_alpha(frame_num), 0)]

\* One pass of the loop body for frame = k.
chart_frame(cfg, data, chart_type, k) ==
    LET img == resize(figure_to_image(Slice(data.years, k),
                                      Slice(data.values, k), chart_type),
                      unpack_width(cfg), unpack_height(cfg))
    IN  IF k > 1 THEN apply_transition(img, k) ELSE img

\* A variant of last_frame: range(1, len(years)), which stops one short.
last_frame_short(data) == Len(data.years) - 1

\* range(1, len(years) + 1) ends after this frame number.
last_frame(data) == Len(data.years)

ChartStart(data, chart_type) ==
    /\ pc = "idle"
    /\ encoded' = NotEncoded
    /\ IF validate_chart_type(config, chart_type)
       THEN /\ pc' = "chart"
            /\ i' = 1
            /\ call' = [NoCall EXCEPT !.op = "generate_chart_animation",
                                      !.status = "running",
                                      !.data = data, !.kind = chart_type]
            /\ disk' = [disk EXCEPT !.anim =
                           VideoWriter(config["fps"], unpack_width(config),
                                       unpack_height(config))]
       ELSE /\ call' = [NoCall EXCEPT !.op = "generate_chart_animation",
                                      !.status = "raised",
                                      !.error = "ValueError",
                                      !.data = data, !.kind = chart_type]
            /\ UNCHANGED <<pc, i, disk>>
    /\ UNCHANGED config

ChartFrame ==
    /\ pc = "chart"
    /\ i <= last_frame(call.data)
    /\ disk' = [disk EXCEPT !.anim =
                   write(@, chart_frame(config, call.data, call.kind, i))]
    /\ i' = i + 1
    /\ UNCHANGED <<config, pc, call, encoded>>

ChartRelease ==
    /\ pc = "chart"
    /\ ~(i <= last_frame(call.data))
    /\ pc' = "idle"
    /\ call' = [call EXCEPT !.status = "returned"]
    /\ UNCHANGED <<config, i, disk, encoded>>

(***************************************************************************)
(* create_voiceover (src/app.py 158-172).  The engine saves a track whose  *)
(* length is the spoken length of the text.                                *)
(***************************************************************************)
voice_ready(cfg) ==
    /\ "rate" \in DOMAIN cfg["voice"]
    /\ "volume" \in DOMAIN cfg["voice"]
    /\ "voice_id" \in DOMAIN cfg["voice"]

CreateVoiceover(seconds) ==
    /\ pc = "idle"
    /\ encoded' = NotEncoded
    /\ IF voice_ready(config)
       THEN /\ disk' = [disk EXCEPT !.voice =
                           [exists |-> TRUE, duration |-> seconds]]
            /\ call' = [NoCall EXCEPT !.op = "create_voiceover",
                                      !.text = seconds]
       ELSE /\ call' = [NoCall EXCEPT !.op = "create_voiceover",
                                      !.status = "raised",
                                      !.error = "KeyError", !.text = seconds]
            /\ UNCHANGED disk
    /\ UNCHANGED <<config, pc, i>>

(***************************************************************************)
(* combine_media (src/app.py 174-197).                                     *)
(***************************************************************************)
\* voice-over gain 1.0 and volumex(0.3), in tenths
VoiceGain == 10
MusicGain == 3

VideoFileClip(segment) ==
    [fps |-> segment.fps, size |-> segment.size, frames |-> segment.frames]

\* title_clip.concatenate_videoclips([animation_clip]), line 183: a
\* VideoFileClip has no such method (concatenate_videoclips is a function of
\* moviepy.editor, which the file does not import), so the lookup raises.
concatenate_videoclips(first, rest) ==
    [raised |-> TRUE, error |-> "AttributeError", frames |-> <<>>]

AudioFileClip(seconds, gain) ==
    [gain |-> gain, start |-> 0, duration |-> seconds]

\* music = 0: no bg_music argument, or no file at that path
audio_tracks(voice, music) ==
    <<AudioFileClip(voice.duration, VoiceGain)>>
        \o (IF music > 0 THEN <<AudioFileClip(music, MusicGain)>> ELSE <<>>)

RECURSIVE LatestEnd(_)
LatestEnd(tracks) ==
    IF Len(tracks) = 0 THEN 0
    ELSE Max(tracks[1].start + tracks[1].duration, LatestEnd(Tail(tracks)))

\* CompositeAudioClip: every track plays from its start; the composite ends
\* when the last track ends.
CompositeAudioClip(tracks) ==
    [tracks |-> tracks, duration |-> LatestEnd(tracks)]

\* VideoFileClip(title_path) and VideoFileClip(animation_path) need their files.
sources_exist(d) == d.title.exists /\ d.anim.exists

Raised(op, error, music) ==
    [NoCall EXCEPT !.op = op, !.status = "raised", !.error = error,
                   !.music = music]

\* Lines 181-183 come first; the audio (186-194) and the encoder (196) are
\* reached only if the concatenation returns.
CombineMedia(music) ==
    /\ pc = "idle"
    /\ IF ~sources_exist(disk)
       THEN /\ encoded' = NotEncoded
            /\ call' = Raised("combine_media", "OSError", music)
       ELSE LET final_clip ==
                    concatenate_videoclips(VideoFileClip(disk.title),
                                           <<VideoFileClip(disk.anim)>>)
            IN  IF final_clip.raised
                THEN /\ encoded' = NotEncoded
                     /\ call' = Raised("combine_media", final_clip.error, music)
                ELSE IF ~disk.voice.exists
                THEN /\ encoded' = NotEncoded
                     /\ call' = Raised("combine_media", "OSError", music)
                ELSE /\ encoded' =
                          [invoked |-> TRUE,
                           frames  |-> final_clip.frames,
                           clips   |-> <<[fps |-> disk.title.fps,
                                          size |-> disk.title.size,
                                          n |-> Len(disk.title.frames)],
                                         [fps |-> disk.anim.fps,
                                          size |-> disk.anim.size,
                                          n |-> Len(disk.anim.frames)]>>,
                           audio   |-> CompositeAudioClip(
                                           audio_tracks(disk.voice, music))]
                     /\ call' = [NoCall EXCEPT !.op = "combine_media",
                                               !.music = music]
    /\ UNCHANGED <<config, pc, i, disk>>

(***************************************************************************)
(* The callers' inputs.                                                    *)
(***************************************************************************)
Chars(n) == [j \in 1..n |-> j]

\* Titles of 8 and of 24 characters ("Economic Growth Analysis", line 234).
Titles == {Chars(8), Chars(24)}

\* The series of length n: consecutive years, values that cover 0 and 255.
Series(n) ==
    [years  |-> [j \in 1..n |-> 1999 + j],
     values |-> [j \in 1..n |-> IF j % 3 = 1 THEN 50 + j
                                ELSE IF j % 3 = 2 THEN 255 ELSE 0]]

\* A single point, a short series, and one longer than the transition window.
AllSeries == {Series(n) : n \in {1, 7, MaxLen}}
ChartKinds == {"line", "bar", "scatter", "pie"}

\* Seconds of speech, and seconds of background music (0: none).
VoiceSeconds == {4, 10}
MusicSeconds == {0, 15}

\* The config files generators are constructed on: none, one per frame rate
\* (the code accepts any fps, 0 too: range(0) is empty), a resolution, a set
\* of chart kinds, and the voice of main's example (lines 215-218), which
\* sets no volume.
Paths ==
    {NoPath,
     FilePath("resolution" :> <<640, 480>>),
     FilePath("chart_types" :> <<"line", "pie">>),
     FilePath("voice" :> [rate |-> 160, voice_id |-> "english"])}
        \cup {FilePath("fps" :> f) : f \in 0..MaxFps}

Init ==
    /\ \E path \in Paths :
          /\ config = load_config(path)
          /\ call = [NoCall EXCEPT !.op = "__init__", !.path = path]
    /\ pc = "idle"
    /\ i = 0
    /\ disk = EmptyDisk
    /\ encoded = NotEncoded

Next ==
    \/ \E path \in Paths : Construct(path)
    \/ \E title \in Titles : TitleStart(title)
    \/ TitleFrame
    \/ TitleRelease
    \/ \E data \in AllSeries, kind \in ChartKinds : ChartStart(data, kind)
    \/ ChartFrame
    \/ ChartRelease
    \/ \E seconds \in VoiceSeconds : CreateVoiceover(seconds)
    \/ \E music \in MusicSeconds : CombineMedia(music)

Spec == Init /\ [][Next]_vars

(***************************************************************************)
(* C1.  generate_chart_animation writes one frame per prefix of the series,*)
(* in increasing prefix length: the j-th frame written is drawn from the   *)
(* first j points, no prefix is skipped or written twice, and the call     *)
(* returns with exactly N frames written for a series of N points.         *)
(***************************************************************************)
C1_FramesArePrefixes ==
    (call.op = "generate_chart_animation" /\ call.status # "raised") =>
        LET f == disk.anim.frames
            N == Len(call.data.years)
        IN  /\ Len(f) <= N
            /\ \A j \in 1..Len(f) :
                  /\ f[j].num = j
                  /\ f[j].years = SubSeq(call.data.years, 1, j)
                  /\ f[j].values = SubSeq(call.data.values, 1, j)
                  /\ f[j].kind = call.kind
            /\ (pc = "chart" => Len(f) = i - 1)
            /\ (call.status = "returned" => Len(f) = N)

C1_Witness ==
    /\ call.op = "generate_chart_animation"
    /\ call.status = "returned"
    /\ Len(call.data.years) >= 7
    /\ Len(disk.anim.frames) = Len(call.data.years)

(***************************************************************************)
(* C2.  For every positive fps, create_title_screen returns with exactly   *)
(* 3 x fps frames written, numbered 0, 1, 2, ... in increasing order: 72   *)
(* at 24 frames per second.                                                *)
(***************************************************************************)
C2_TitleFrameCount ==
    (call.op = "create_title_screen" /\ config["fps"] >= 1) =>
        LET f == disk.title.frames
        IN  /\ \A j \in 1..Len(f) : f[j].num = j - 1
            /\ (pc = "title" => Len(f) = i)
            /\ (pc = "idle" =>
                    /\ call.status = "returned"
                    /\ Len(f) = 3 * config["fps"]
                    /\ (config["fps"] = 24 => Len(f) = 72))

(***************************************************************************)
(* C3.  A call of generate_chart_animation with a chart kind outside the   *)
(* configured chart_types raises the invalid-kind error and does nothing   *)
(* else: no writer or file is opened, no frame is written, the encoder is  *)
(* not invoked, and the configuration and the output directory are as they *)
(* were.                                                                   *)
(***************************************************************************)
C3_InvalidKindNoEffect ==
    [][ ( /\ pc = "idle"
          /\ call'.op = "generate_chart_animation"
          /\ ~InSeq(call'.kind, config["chart_types"]) )
        => ( /\ call'.status = "raised"
             /\ call'.error = "ValueError"
             /\ pc' = "idle"
             /\ disk' = disk
             /\ config' = config
             /\ ~encoded'.invoked ) ]_vars

C3_Witness ==
    /\ call.op = "generate_chart_animation"
    /\ call.status = "raised"
    /\ call.kind = "bar"
    /\ ~InSeq("bar", config["chart_types"])
    /\ disk.anim.exists
    /\ Len(disk.anim.frames) > 0

(***************************************************************************)
(* C4.  combine_media fails with an AssemblyFailure, without invoking the  *)
(* encoder, whenever the title and the animation segment disagree on       *)
(* resolution or on frame rate; when they agree on both and differ only in *)
(* frame count, it succeeds.                                               *)
(***************************************************************************)
SegmentsDisagree ==
    \/ disk.title.size # disk.anim.size
    \/ disk.title.fps # disk.anim.fps

AllSourcesExist == sources_exist(disk) /\ disk.voice.exists

C4_MismatchFails ==
    (call.op = "combine_media" /\ AllSourcesExist) =>
        /\ SegmentsDisagree =>
              /\ call.status = "raised"
              /\ call.error = "AssemblyFailure"
              /\ ~encoded.invoked
        /\ (~SegmentsDisagree
              /\ Len(disk.title.frames) # Len(disk.anim.frames)) =>
              /\ call.status = "returned"
              /\ encoded.invoked

(***************************************************************************)
(* C5.  combine_media hands the encoder a timeline that is the title       *)
(* segment's frames followed at once by the animation segment's frames,    *)
(* each in its own order, nothing dropped: its length is the sum of the    *)
(* two; and every audio track starts at time zero.                         *)
(***************************************************************************)
C5_TimelineOrder ==
    (call.op = "combine_media" /\ AllSourcesExist) =>
        LET t == disk.title.frames
            a == disk.anim.frames
        IN  /\ encoded.invoked
            /\ Len(encoded.frames) = Len(t) + Len(a)
            /\ \A j \in 1..Len(t) : encoded.frames[j] = t[j]
            /\ \A j \in 1..Len(a) : encoded.frames[Len(t) + j] = a[j]
            /\ \A j \in 1..Len(encoded.audio.tracks) :
                  encoded.audio.tracks[j].start = 0

(***************************************************************************)
(* C6.  Mixing the voice-over and the music raises no error, and the audio *)
(* bound to the final video has the video's duration: longer tracks are    *)
(* truncated to it and shorter ones padded.  The video lasts               *)
(* n1/fps1 + n2/fps2 seconds for its two clips.                            *)
(***************************************************************************)
C6_AudioVideoParity ==
    (call.op = "combine_media" /\ AllSourcesExist) =>
        /\ call.status = "returned"
        /\ encoded.invoked
        /\ LET t == encoded.clips[1]
               a == encoded.clips[2]
           IN  /\ encoded.audio.duration * t.fps * a.fps
                     = t.n * a.fps + a.n * t.fps
               /\ \A j \in 1..Len(encoded.audio.tracks) :
                     encoded.audio.tracks[j].duration * t.fps * a.fps
                         = t.n * a.fps + a.n * t.fps

(***************************************************************************)
(* C8.  Every frame create_title_screen and generate_chart_animation have  *)
(* for their video writer has the width and height the writer was opened   *)
(* with: the frames written to either segment, and the frame buffer the    *)
(* title call builds its frames in; and the two writers a generator opens  *)
(* get one and the same size, also when width and height differ.           *)
(***************************************************************************)
FramesFit(segment) ==
    \A j \in 1..Len(segment.frames) :
        <<segment.frames[j].w, segment.frames[j].h>> = segment.size

C8_FramesMatchWriter ==
    /\ FramesFit(disk.title)
    /\ FramesFit(disk.anim)
    /\ (call.op = "create_title_screen" =>
            <<allocate_frame(config).w, allocate_frame(config).h>>
                = disk.title.size)
    \* a title writer opened on this configuration's resolution and the
    \* animation writer this generator opens have the same size
    /\ ((call.op = "generate_chart_animation" /\ call.status # "raised"
            /\ disk.title.size = <<unpack_width(config), unpack_height(config)>>)
          => disk.title.size = disk.anim.size)

(***************************************************************************)
(* C9.  In the title segment the visible part of the title never shrinks   *)
(* from one frame to the next, and the whole title is visible from about   *)
(* one third of the segment on (here: every frame of the second half is    *)
(* there and shows the whole title, which allows the reveal half as much   *)
(* time again).                                                            *)
(***************************************************************************)
C9_TitleRevealed ==
    (call.op = "create_title_screen" /\ pc = "idle") =>
        LET f == disk.title.frames
        IN  /\ \A j \in 1..Len(f) : \A k \in j..Len(f) :
                  Len(f[j].text) <= Len(f[k].text)
            /\ \A n \in 0..(3 * config["fps"] - 1) :
                  2 * n >= 3 * config["fps"] =>
                      /\ Len(f) > n
                      /\ f[n + 1].text = call.title

(***************************************************************************)
(* C10.  For every frame number k > 1 the transition weight min(1, k/10)   *)
(* lies in [0, 1], does not decrease with k and is 1 from k = 10 on, and   *)
(* every frame written to the animation segment is, sample for sample, the *)
(* frame that was rendered: blending a frame with itself changes nothing.  *)
(* The first frame is written unblended.                                   *)
(***************************************************************************)
C10_SelfBlendIsIdentity ==
    \A j \in 1..Len(disk.anim.frames) :
        LET f == disk.anim.frames[j]
            k == f.num
        IN  /\ f.pix = figure_to_image(f.years, f.values, f.kind).pix
            /\ k > 1 =>
                  /\ transition_alpha(k) >= 0
                  /\ transition_alpha(k) <= 10
                  /\ transition_alpha(k) >= transition_alpha(k - 1)
                  /\ (k >= 10 => transition_alpha(k) = 10)
                  /\ (k < 10 => transition_alpha(k) = k)

C10_Witness ==
    \E j \in 1..Len(disk.anim.frames) :
        /\ disk.anim.frames[j].num = 11
        /\ disk.anim.frames[j].kind = "scatter"
        /\ disk.anim.frames[j].pix[2] = 255
        /\ \E k \in 1..Len(disk.anim.frames) :
              /\ disk.anim.frames[k].num = 4
              /\ disk.anim.frames[k].pix[4] = 54

(***************************************************************************)
(* C7.  The configuration is the recursive merge of the document over the  *)
(* defaults: every recognized key, at every nesting level, holds the       *)
(* document's value if the document sets it and the default otherwise.     *)
(***************************************************************************)
Expected(doc, k) == IF k \in DOMAIN doc THEN doc[k] ELSE default_config[k]
ExpectedSub(doc, k, s) ==
    IF k \in DOMAIN doc /\ s \in DOMAIN doc[k] THEN doc[k][s]
    ELSE default_config[k][s]

C7_RecursiveMerge ==
    (call.op = "__init__" /\ call.path.exists) =>
        \A k \in TopKeys :
            /\ k \in DOMAIN config
            /\ IF k \in NestedKeys
               THEN \A s \in SubKeys(k) :
                        /\ s \in DOMAIN config[k]
                        /\ config[k][s] = ExpectedSub(call.path.doc, k, s)
               ELSE config[k] = Expected(call.path.doc, k)

=============================================================================
